---- MODULE Spec2Model ----
(***************************************************************************)
(* Stutter detection engine of detection-Files/stutter_detector.py.        *)
(*                                                                         *)
(* Times are integers in milliseconds (1.5 s = 1500).  A word's text is a  *)
(* sequence of one-character strings, so that normalisation and stripping  *)
(* are computed character by character as the code does.  The waveform y   *)
(* is represented by what the signal library returns for it: the global    *)
(* onset frames, and per word the voicing flag of its frames, its RMS      *)
(* frames and the onset frames of its own audio slice.                     *)
(***************************************************************************)
EXTENDS Integers, Sequences, FiniteSets, TLC

VARIABLES words, y, pc, reps, prolongs, acoustic_reps, filtered_acoustic_reps,
          blocks, events,
          scan_i, \* the index i of detect_repetitions while its loop runs
          files,  \* the files of the upload folder of the server
          req     \* the /api/analyze requests being served

vars == <<words, y, pc, reps, prolongs, acoustic_reps, filtered_acoustic_reps,
          blocks, events, scan_i, files, req>>

\* the upload folder without any file in it: a folder maps the names of the
\* files it holds to their contents
NoFiles == [name \in {} |-> 0]

(***************************** bounds **************************************)
\* most events of a detection result of the practice specification
MaxEvents == 3
\* longest transcript of the specification with several repetition runs
MaxLongRunWords == 6
\* longest transcript of the prolongation-detector specification
MaxProlongWords == 4
\* longest transcript of the sound-inference specification
MaxTargets == 2
\* most onsets of a recording of the acoustic-detector specification
MaxBursts == 7
\* number of /api/analyze requests served at the same time
MaxRequests == 2
\* longest transcript of the pipeline specification
MaxWords == 3
\* longest transcript of the repetition-detector specification
MaxRunWords == 4
\* number of onsets of a generated burst train
MaxOnsets == 5

(************************ tunable parameters *******************************)
PROLONG_MS == 650
MIN_WORD_MS_FOR_PROLONG == 500
\* PROLONG_RATIO = 0.70, in percent
PROLONG_RATIO == 70
\* LEADING_SILENCE_IGNORE = 0.35 s
LEADING_SILENCE_IGNORE == 350
MIN_BURST_GAP_MS == 80
MAX_BURST_GAP_MS == 200
MIN_BURSTS_FOR_STUTTER == 5
\* "first 1.5 seconds" cut-off used by every detector
EARLY_CUTOFF == 1500
\* ABSOLUTE_BLOCK_THRESHOLD = 1.5 s
ABSOLUTE_BLOCK_THRESHOLD == 1500
\* sample rate of load_audio
SR == 16000
\* hop of the global onset detector, in samples
ONSET_HOP == 512
\* hop of pyin, of the RMS frames and of the per-word onset detector
FRAME_HOP == 256
\* n_fft of frames_to_time for the pyin frames
FRAME_NFFT == 1024

IGNORE_SHORT_WORDS ==
  { <<"i">>, <<"t","o">>, <<"t","h","e">>, <<"a">>, <<"a","n">>, <<"a","n","d">>,
    <<"i","s">>, <<"o","f">>, <<"i","n">>, <<"i","t">>, <<"a","t">>, <<"o","r">>,
    <<"f","o","r">>, <<"b","u","t">>, <<"n","o","t">>, <<"c","a","n">>,
    <<"w","i","l","l">>, <<"t","h","a","t">>, <<"t","h","e","s","e">>,
    <<"t","h","o","s","e">>, <<"v","e","r","y">>,
    <<"d","i","f","f","i","c","u","l","t">> }

IGNORE_CONTRACTIONS ==
  { <<"i","s","n","'","t">>, <<"a","r","e","n","'","t">>, <<"w","a","s","n","'","t">>,
    <<"w","e","r","e","n","'","t">>, <<"d","o","n","'","t">>,
    <<"d","o","e","s","n","'","t">>, <<"d","i","d","n","'","t">>,
    <<"c","a","n","'","t">>, <<"w","o","n","'","t">>,
    <<"w","o","u","l","d","n","'","t">>, <<"s","h","o","u","l","d","n","'","t">>,
    <<"c","o","u","l","d","n","'","t">>, <<"h","a","v","e","n","'","t">>,
    <<"h","a","s","n","'","t">>, <<"h","a","d","n","'","t">> }

consonant_clusters ==
  { <<"s","t">>, <<"s","l">>, <<"s","p">>, <<"s","k">>, <<"s","c">>, <<"t","r">>,
    <<"d","r">>, <<"b","r">>, <<"c","r">>, <<"f","r">>, <<"g","r">>, <<"p","r">>,
    <<"t","h">>, <<"s","h">>, <<"c","h">>, <<"w","h">> }

(****************************** text ***************************************)
Punctuation == {".", ",", "!", "?", ";", ":", "'", "\"", "-", " "}
\* the characters str.strip('.,!?;:\'"') removes
StripChars == {".", ",", "!", "?", ";", ":", "'", "\""}
Whitespace == {" "}

\* one character of str.lower()
LowerChar(c) ==
  CASE c = "A" -> "a" [] c = "C" -> "c" [] c = "I" -> "i" [] c = "S" -> "s"
    [] c = "T" -> "t" [] OTHER -> c

Lower(s) == [k \in 1..Len(s) |-> LowerChar(s[k])]

\* \W of the regular expression: everything but letters, digits and "_"
IsNonWordChar(c) == c \in Punctuation

\* re.sub(r'\W+', '', s.lower())
Normalize(s) == SelectSeq(Lower(s), LAMBDA c : ~IsNonWordChar(c))

RECURSIVE LStrip(_, _)
LStrip(s, chars) ==
  IF s # <<>> /\ Head(s) \in chars THEN LStrip(Tail(s), chars) ELSE s

RECURSIVE RStrip(_, _)
RStrip(s, chars) ==
  IF s # <<>> /\ s[Len(s)] \in chars THEN RStrip(SubSeq(s, 1, Len(s) - 1), chars) ELSE s

\* str.strip(chars)
Strip(s, chars) == RStrip(LStrip(s, chars), chars)

\* w['word'].strip().lower().strip('.,!?;:\'"')
WordClean(s) == Strip(Lower(Strip(s, Whitespace)), StripChars)

(**************************** arithmetic ***********************************)
Max(a, b) == IF a >= b THEN a ELSE b
Min(a, b) == IF a <= b THEN a ELSE b
Abs(a) == IF a < 0 THEN 0 - a ELSE a

RECURSIVE SumSeq(_)
SumSeq(s) == IF s = <<>> THEN 0 ELSE Head(s) + SumSeq(Tail(s))

\* ceiling of a / b for b > 0 (a may be negative)
CeilDiv(a, b) == IF a >= 0 THEN (a + b - 1) \div b ELSE 0 - ((0 - a) \div b)

RECURSIVE InsertAsc(_, _)
InsertAsc(s, v) ==
  IF s = <<>> THEN <<v>>
  ELSE IF v < Head(s) THEN <<v>> \o s ELSE <<Head(s)>> \o InsertAsc(Tail(s), v)

RECURSIVE SortAsc(_)
SortAsc(s) == IF s = <<>> THEN <<>> ELSE InsertAsc(SortAsc(Tail(s)), Head(s))

\* twice np.median(s) for a non-empty list: an integer also when the median
\* is the mean of the two middle values
Median2(s) ==
  LET t == SortAsc(s)
      n == Len(t)
  IN  IF n % 2 = 1 THEN 2 * t[(n + 1) \div 2] ELSE t[n \div 2] + t[n \div 2 + 1]

(***************************** events **************************************)
NoText == <<>>

\* An event dictionary.  Keys a kind of event does not carry hold a neutral
\* value; idx is the 1-based index of the word the event was made from (0
\* for an acoustic event), kept to tell word instances apart.
Event(type, word, start, end, count, confidence, idx) ==
  [type |-> type, word |-> word, start |-> start, end |-> end, count |-> count,
   confidence |-> confidence, idx |-> idx, gap_duration |-> 0, note |-> "",
   inferred_sound |-> NoText, target_word |-> NoText, named |-> FALSE,
   dur_ms |-> 0, word_dur_ms |-> 0]


(*********************** repetition detection ******************************)
\* the inner while loop: last index of the run of words that normalise to
\* run_word, scanning from i
RECURSIVE RunEnd(_, _, _)
RunEnd(ws, i, run_word) ==
  IF i + 1 <= Len(ws) /\ Normalize(ws[i + 1].word) = run_word
  THEN RunEnd(ws, i + 1, run_word)
  ELSE i

\* faulty variant: count taken as end - start
RepetitionEventMiscounted(ws, start, end, run_word) ==
  Event("repetition", run_word, ws[start].start, ws[end].end, end - start, 95, start)

RepetitionEvent(ws, start, end, run_word) ==
  Event("repetition", run_word, ws[start].start, ws[end].end, end - start + 1, 95, start)

\* the "too early" test of a lexical run
RepetitionTooEarly(ws, start) == ws[start].start < EARLY_CUTOFF

\* faulty variant: single letters treated like any other token
SingleLetterNeverSkipped(run_word, count) == FALSE

\* the single-letter test: only "i", or 4+ repetitions
SingleLetterSkipped(run_word, count) ==
  Len(run_word) = 1 /\ run_word \notin {<<"i">>} /\ count < 4

\* faulty variant: "continue" on an empty word without "i += 1"
AfterEmptyWordStuck(i) == i

\* the index after the "Skip empty words" branch
AfterEmptyWord(i) == i + 1

\* faulty variant: the scan resumes at the word after the start of the run
IterationEndFromStart(ws, i) == i + 1

\* the value of i when one iteration of the outer while loop, begun at the
\* 1-based index i, gets back to the loop test: past the empty word, or past
\* the end of the run on every other path ("too early", "single letter",
\* event appended, short run)
IterationEnd(ws, i) ==
  LET run_word == Normalize(ws[i].word) IN
  IF Len(run_word) < 1 THEN AfterEmptyWord(i)
  ELSE RunEnd(ws, i, run_word) + 1

\* the events list after that iteration
IterationEvents(ws, i, evs) ==
  LET run_word == Normalize(ws[i].word) IN
  IF Len(run_word) < 1 THEN evs
  ELSE
    LET start == i
        end == RunEnd(ws, i, run_word)
        count == end - start + 1
    IN  IF end - start >= 2
        THEN IF RepetitionTooEarly(ws, start) THEN evs
             ELSE IF SingleLetterSkipped(run_word, count) THEN evs
                  ELSE Append(evs, RepetitionEvent(ws, start, end, run_word))
        ELSE evs

\* the outer while loop, i is the 1-based scan index
RECURSIVE RepetitionScan(_, _, _)
RepetitionScan(ws, i, evs) ==
  IF i > Len(ws) THEN evs
  ELSE RepetitionScan(ws, IterationEnd(ws, i), IterationEvents(ws, i, evs))

detect_repetitions(ws) == RepetitionScan(ws, 1, <<>>)

(******************* acoustic repetition detection *************************)
\* faulty variant: the onset frames converted with the n_fft offset that the
\* conversion of the pyin frames uses
OnsetTimesWithNfft(frames) ==
  [k \in 1..Len(frames) |-> ((frames[k] * ONSET_HOP + FRAME_NFFT \div 2) * 1000) \div SR]

\* librosa.frames_to_time(onset_frames, sr, hop_length=512), in ms
OnsetTimes(frames) == [k \in 1..Len(frames) |-> (frames[k] * ONSET_HOP * 1000) \div SR]

\* faulty variant: the upper limit of the burst gap left out
RECURSIVE ClusterEndNoUpperLimit(_, _)
ClusterEndNoUpperLimit(onset_times, i) ==
  IF i + 1 <= Len(onset_times)
     /\ MIN_BURST_GAP_MS <= onset_times[i + 1] - onset_times[i]
  THEN ClusterEndNoUpperLimit(onset_times, i + 1)
  ELSE i

\* the inner while loop: last index of the cluster scanned from i
RECURSIVE ClusterEnd(_, _)
ClusterEnd(onset_times, i) ==
  IF i + 1 <= Len(onset_times)
     /\ MIN_BURST_GAP_MS <= onset_times[i + 1] - onset_times[i]
     /\ onset_times[i + 1] - onset_times[i] <= MAX_BURST_GAP_MS
  THEN ClusterEnd(onset_times, i + 1)
  ELSE i

\* the words that start within 0.5 s after the cluster ends
\* faulty variant: the 0.5 s limit of the lookahead left out
LookaheadWordsUnbounded(ws, end_time) ==
  {k \in 1..Len(ws) : ws[k].start >= end_time}

LookaheadWords(ws, end_time) ==
  {k \in 1..Len(ws) : ws[k].start >= end_time /\ ws[k].start - end_time < 500}

\* faulty variant: "gap <= min_gap", the last of the nearest words wins
NextWordIndexLastOnTies(ws, end_time) ==
  LET cand == LookaheadWords(ws, end_time) IN
  IF cand = {} THEN 0
  ELSE CHOOSE k \in cand :
         \A j \in cand : \/ ws[k].start < ws[j].start
                         \/ (ws[k].start = ws[j].start /\ k >= j)

\* index of next_word, 0 when the loop leaves next_word = None: the smallest
\* gap wins and, "gap < min_gap" being strict, the first such word in list order
NextWordIndex(ws, end_time) ==
  LET cand == LookaheadWords(ws, end_time) IN
  IF cand = {} THEN 0
  ELSE CHOOSE k \in cand :
         \A j \in cand : \/ ws[k].start < ws[j].start
                         \/ (ws[k].start = ws[j].start /\ k <= j)

InferredSound(word) ==
  LET word_text == Lower(Strip(word, StripChars)) IN
  IF Len(word_text) >= 2 /\ SubSeq(word_text, 1, 2) \in consonant_clusters
  THEN SubSeq(word_text, 1, 2)
  ELSE IF word_text # <<>> THEN <<word_text[1]>> ELSE <<"?">>

\* faulty variant: start and end of the cluster exchanged
ClusterSpanSwapped(onset_times, cluster_start, cluster_end) ==
  [start |-> onset_times[cluster_end], end |-> onset_times[cluster_start]]

\* start_time and end_time of a cluster: its first and its last onset
ClusterSpan(onset_times, cluster_start, cluster_end) ==
  [start |-> onset_times[cluster_start], end |-> onset_times[cluster_end]]

\* faulty variant: the branch for a missing transcript never taken
HasWordsAlways(ws) == TRUE

\* the truth value of "if words:"
HasWords(ws) == ws # <<>>

AcousticEvent(onset_times, ws, cluster_start, cluster_end) ==
  LET start_time == ClusterSpan(onset_times, cluster_start, cluster_end).start
      end_time == ClusterSpan(onset_times, cluster_start, cluster_end).end
      burst_count == cluster_end - cluster_start + 1
      base == Event("acoustic_repetition", <<"sound bursts">>, start_time, end_time,
                    burst_count, 80, 0)
      nw == NextWordIndex(ws, end_time)
  IN  IF HasWords(ws)
      THEN IF nw # 0
           THEN LET snd == InferredSound(ws[nw].word) IN
                [base EXCEPT !.inferred_sound = snd, !.target_word = ws[nw].word,
                             !.named = TRUE,
                             !.word = snd \o <<"-">> \o snd \o <<"-", ".", ".", ".", " ", "(">>
                                      \o ws[nw].word \o <<")">>]
           ELSE [base EXCEPT !.word = <<"unknown sound">>]
      ELSE base

\* faulty variant: the cut-off of the first 1.5 seconds left out
AcousticKeptAlways(start_time) == TRUE

\* the "first 1.5 seconds" test of a cluster
AcousticKept(start_time) == start_time >= EARLY_CUTOFF

\* the outer while loop over the onsets
RECURSIVE AcousticScan(_, _, _, _)
AcousticScan(onset_times, ws, i, evs) ==
  IF i > Len(onset_times) THEN evs
  ELSE
    LET cluster_start == i
        cluster_end == ClusterEnd(onset_times, i)
        burst_count == cluster_end - cluster_start + 1
    IN  IF burst_count >= MIN_BURSTS_FOR_STUTTER /\ AcousticKept(onset_times[cluster_start])
        THEN AcousticScan(onset_times, ws, cluster_end + 1,
                          Append(evs, AcousticEvent(onset_times, ws, cluster_start, cluster_end)))
        ELSE AcousticScan(onset_times, ws, cluster_end + 1, evs)

detect_acoustic_repetitions(wave, ws) ==
  LET onset_times == OnsetTimes(wave.onset_frames) IN
  IF Len(onset_times) < MIN_BURSTS_FOR_STUTTER THEN <<>>
  ELSE AcousticScan(onset_times, ws, 1, <<>>)

(************************ prolongation detection ***************************)
\* len(y), in samples, and the number of pyin frames (centred framing)
NumSamples(wave) == (wave.len_ms * SR) \div 1000
NumFrames(wave) == 1 + NumSamples(wave) \div FRAME_HOP

\* frame_times[k] in ms, k counted from 0
FrameTime(k) == ((k * FRAME_HOP + FRAME_NFFT \div 2) * 1000) \div SR

\* np.searchsorted(frame_times, t): the number of frames that start before t
SearchSorted(wave, t) ==
  LET step == (FRAME_HOP * 1000) \div SR
      k == CeilDiv(t - FrameTime(0), step)
  IN  Max(0, Min(NumFrames(wave), k))

WordDurMs(w) == w.end - w.start

\* gaps of more than 0.01 s between consecutive words
RECURSIVE ProlongGaps(_, _)
ProlongGaps(ws, i) ==
  IF i > Len(ws) THEN <<>>
  ELSE LET gap == ws[i].start - ws[i - 1].end IN
       (IF gap > 10 THEN <<gap>> ELSE <<>>) \o ProlongGaps(ws, i + 1)

\* twice median_gap (0.2 s when there is no gap)
MedianGap2(ws) ==
  LET gaps == ProlongGaps(ws, 2) IN IF Len(gaps) > 0 THEN Median2(gaps) ELSE 2 * 200

\* twice the median word duration
MedianWordDur2(ws) == Median2([k \in 1..Len(ws) |-> WordDurMs(ws[k])])

IgnoredWord(w) ==
  WordClean(w.word) \in IGNORE_SHORT_WORDS \/ WordClean(w.word) \in IGNORE_CONTRACTIONS

\* faulty variant: the test of the previous word left out
AfterProlongedIgnored(ws, idx, evs) == FALSE

\* the previous word was flagged as a prolongation and this word is close to it
AfterProlonged(ws, idx, evs) ==
  /\ idx > 1
  /\ \E k \in 1..Len(evs) :
        evs[k].type = "prolongation" /\ Abs(evs[k].start - ws[idx - 1].start) < 100
  /\ ws[idx].start - ws[idx - 1].end < 300

\* faulty variant: the test of the gap before the word left out
AbnormalGapBeforeIgnored(ws, idx) == FALSE

AbnormalGapBefore(ws, idx) ==
  idx > 1 /\ ws[idx].start - ws[idx - 1].end > MedianGap2(ws)

\* more than 4x the median word duration
VeryLongWord(ws, idx) == WordDurMs(ws[idx]) > 2 * MedianWordDur2(ws)

SFrame(wave, w) == Max(0, SearchSorted(wave, w.start))
EFrame(wave, w) == Min(NumFrames(wave) - 1, SearchSorted(wave, w.end))

\* len(word_segment), with word_segment = y[start_sample:min(end_sample, len(y))]
SegmentLen(wave, w) ==
  LET start_sample == (w.start * SR) \div 1000
      end_sample == (w.end * SR) \div 1000
  IN  Max(0, Min(end_sample, NumSamples(wave)) - start_sample)

\* the RMS frames of the word's slice, in units of 0.0001
WordRms(wave, idx) == wave.feat[idx].rms

\* mean_rms < 0.001, mean_rms = 0.0 for an empty slice
NearSilent(wave, ws, idx) ==
  \/ SegmentLen(wave, ws[idx]) = 0
  \/ SumSeq(WordRms(wave, idx)) < 10 * Len(WordRms(wave, idx))

\* np.isnan of an element of voiced_flag, an array of booleans
IsNan(v) == FALSE

\* voiced_flag[s_frame:e_frame]
SubV(wave, ws, idx) ==
  [k \in 1..(EFrame(wave, ws[idx]) - SFrame(wave, ws[idx])) |-> wave.feat[idx].voiced]

\* the loop that finds the longest contiguous run of frames for which
\* np.isnan is false: the widest stretch between two neighbouring stops, a
\* stop being a frame for which it is true or either end of the slice
LongestRun(sub_v) ==
  LET stops == {k \in 1..Len(sub_v) : IsNan(sub_v[k])} \cup {0, Len(sub_v) + 1}
      Neighbours(a, b) == a < b /\ \A c \in stops : ~(a < c /\ c < b)
      runs == {p[2] - p[1] - 1 : p \in {q \in stops \X stops : Neighbours(q[1], q[2])}}
  IN  CHOOSE m \in runs : \A r \in runs : r <= m

\* dur_ms = (max_run * 256.0 / sr) * 1000.0
VoicedDurMs(wave, ws, idx) ==
  (LongestRun(SubV(wave, ws, idx)) * FRAME_HOP * 1000) \div SR

\* number of RMS frames above 30% of the mean
EnergyFrames(rms) ==
  Cardinality({k \in 1..Len(rms) : 10 * rms[k] * Len(rms) > 3 * SumSeq(rms)})

\* long word, short voicing and energy_ratio < 0.50
SilenceInsideWord(wave, ws, idx) ==
  /\ WordDurMs(ws[idx]) > 1000
  /\ VoicedDurMs(wave, ws, idx) < 800
  /\ 2 * EnergyFrames(WordRms(wave, idx)) < Len(WordRms(wave, idx))

\* no gap before, abnormally long, voiced_ratio < 0.70
SwallowedStutter(wave, ws, idx) ==
  /\ idx > 1
  /\ ws[idx].start - ws[idx - 1].end < 100
  /\ WordDurMs(ws[idx]) > MedianWordDur2(ws)
  /\ 100 * VoicedDurMs(wave, ws, idx) < 70 * WordDurMs(ws[idx])

\* librosa.frames_to_time(word_onsets, sr, hop_length=256), in ms
WordOnsetTimes(wave, idx) ==
  LET fr == wave.feat[idx].onsets IN
  [k \in 1..Len(fr) |-> (fr[k] * FRAME_HOP * 1000) \div SR]

\* is_actually_repetition: 3+ onsets and 2+ gaps of 90-240 ms
IsActuallyRepetition(wave, ws, idx) ==
  LET onset_times == WordOnsetTimes(wave, idx) IN
  /\ WordDurMs(ws[idx]) > 500
  /\ Len(onset_times) >= 3
  /\ Cardinality({k \in 2..Len(onset_times) :
                    /\ 90 <= onset_times[k] - onset_times[k - 1]
                    /\ onset_times[k] - onset_times[k - 1] <= 240}) >= 2

IsVowelProlong(wave, ws, idx) ==
  /\ VoicedDurMs(wave, ws, idx) > PROLONG_MS
  /\ 100 * VoicedDurMs(wave, ws, idx) > PROLONG_RATIO * WordDurMs(ws[idx])

IsConsonantProlong(wave, ws, idx) ==
  LET rms == WordRms(wave, idx) IN
  /\ WordDurMs(ws[idx]) > 1000
  /\ 10 * EnergyFrames(rms) > 6 * Len(rms)
  /\ SumSeq(rms) > 20 * Len(rms)

\* the "first 1.5 seconds" test of a word in detect_prolongations
WordTooEarly(w) == w.start < EARLY_CUTOFF

\* faulty variant: the whole word taken as the repeated token
InternalRepetitionEventWholeWord(wave, ws, idx) ==
  Event("repetition", ws[idx].word, ws[idx].start, ws[idx].end,
        Len(WordOnsetTimes(wave, idx)), 90, idx)

InternalRepetitionEvent(wave, ws, idx) ==
  LET w == ws[idx]
      word_clean == WordClean(w.word)
      repeated_sound == IF word_clean # <<>> THEN <<word_clean[1]>> ELSE <<w.word[1]>>
  IN  Event("repetition", repeated_sound, w.start, w.end,
            Len(WordOnsetTimes(wave, idx)), 90, idx)

ProlongationEvent(wave, ws, idx) ==
  LET w == ws[idx] IN
  [Event("prolongation", w.word, w.start, w.end, 0, 85, idx)
     EXCEPT !.dur_ms = VoicedDurMs(wave, ws, idx), !.word_dur_ms = WordDurMs(w)]

\* one iteration of the loop over the words: the events list after word idx
ProlongWord(wave, ws, idx, evs) ==
  LET w == ws[idx] IN
  IF WordDurMs(w) < MIN_WORD_MS_FOR_PROLONG THEN evs
  ELSE IF IgnoredWord(w) THEN evs
  ELSE IF AfterProlonged(ws, idx, evs) THEN evs
  ELSE IF AbnormalGapBefore(ws, idx) THEN evs
  ELSE IF VeryLongWord(ws, idx) THEN evs
  ELSE IF EFrame(wave, w) - SFrame(wave, w) < 1 THEN evs
  ELSE IF NearSilent(wave, ws, idx) THEN evs
  ELSE IF SilenceInsideWord(wave, ws, idx) THEN evs
  ELSE IF SwallowedStutter(wave, ws, idx) THEN evs
  ELSE IF IsActuallyRepetition(wave, ws, idx)
       THEN IF w.start >= EARLY_CUTOFF
            THEN Append(evs, InternalRepetitionEvent(wave, ws, idx))
            ELSE evs
  ELSE IF IsVowelProlong(wave, ws, idx) \/ IsConsonantProlong(wave, ws, idx)
       THEN IF WordTooEarly(w) THEN evs
            ELSE Append(evs, ProlongationEvent(wave, ws, idx))
  ELSE evs

RECURSIVE ProlongScan(_, _, _, _)
ProlongScan(wave, ws, idx, evs) ==
  IF idx > Len(ws) THEN evs
  ELSE ProlongScan(wave, ws, idx + 1, ProlongWord(wave, ws, idx, evs))

detect_prolongations(wave, ws) == ProlongScan(wave, ws, 1, <<>>)

(*************************** block detection *******************************)
\* the gaps list: the word index and the duration of every gap kept
RECURSIVE BlockGaps(_, _)
BlockGaps(ws, i) ==
  IF i > Len(ws) THEN <<>>
  ELSE LET gap == ws[i].start - ws[i - 1].end IN
       (IF ws[i].start > LEADING_SILENCE_IGNORE /\ gap > 10 /\ gap < 3000
        THEN <<[duration |-> gap, word_idx |-> i]>> ELSE <<>>) \o BlockGaps(ws, i + 1)

\* the "first 1.5 seconds" test of both block checks
BlockTooEarly(w) == w.start < EARLY_CUTOFF

GapBlockEvent(ws, gap_info) ==
  LET word == ws[gap_info.word_idx] IN
  [Event("block", word.word, word.start, word.end, 0, 85, gap_info.word_idx)
     EXCEPT !.gap_duration = gap_info.duration]

\* the loop over the gaps
RECURSIVE GapBlockScan(_, _, _, _)
GapBlockScan(ws, gaps, k, evs) ==
  IF k > Len(gaps) THEN evs
  ELSE IF gaps[k].duration >= ABSOLUTE_BLOCK_THRESHOLD /\ ~BlockTooEarly(ws[gaps[k].word_idx])
       THEN GapBlockScan(ws, gaps, k + 1, Append(evs, GapBlockEvent(ws, gaps[k])))
       ELSE GapBlockScan(ws, gaps, k + 1, evs)

\* the gap-based check, made only with at least two gaps
GapBlocks(ws) ==
  LET gaps == BlockGaps(ws, 2) IN
  IF Len(gaps) >= 2 THEN GapBlockScan(ws, gaps, 1, <<>>) ELSE <<>>

\* faulty variant: the events found so far are not consulted
AlreadyFlaggedIgnored(w, evs) == FALSE

\* the word is in events already: same text, start within 0.1 s
AlreadyFlagged(w, evs) ==
  \E k \in 1..Len(evs) : evs[k].word = w.word /\ Abs(evs[k].start - w.start) < 100

\* faulty variant: the repetitions are not consulted
InRepetitionIgnored(w, repetitions) == FALSE

InRepetition(w, repetitions) ==
  \E k \in 1..Len(repetitions) :
     repetitions[k].start <= w.start /\ w.start <= repetitions[k].end

InProlongation(w, prolongations) ==
  \E k \in 1..Len(prolongations) : Abs(prolongations[k].start - w.start) < 100

\* faulty variant: "or" in place of "and"
ExtremelyLongEither(ws, idx) ==
  2 * WordDurMs(ws[idx]) > 5 * MedianWordDur2(ws) \/ WordDurMs(ws[idx]) > 2000

\* more than 5x the median word duration and more than 2 s
ExtremelyLong(ws, idx) ==
  2 * WordDurMs(ws[idx]) > 5 * MedianWordDur2(ws) /\ WordDurMs(ws[idx]) > 2000

LongWordBlockEvent(ws, idx) ==
  LET w == ws[idx] IN
  [Event("block", w.word, w.start, w.end, 0, 70, idx)
     EXCEPT !.gap_duration = WordDurMs(w), !.note = "abnormally_long_word"]

\* the loop of the abnormally-long-word check
RECURSIVE LongWordScan(_, _, _, _, _)
LongWordScan(ws, repetitions, prolongations, idx, evs) ==
  IF idx > Len(ws) THEN evs
  ELSE
    LET w == ws[idx]
        flag == /\ ~AlreadyFlagged(w, evs)
                /\ ~InRepetition(w, repetitions)
                /\ ~InProlongation(w, prolongations)
                /\ ExtremelyLong(ws, idx)
                /\ ~BlockTooEarly(w)
    IN  LongWordScan(ws, repetitions, prolongations, idx + 1,
                     IF flag THEN Append(evs, LongWordBlockEvent(ws, idx)) ELSE evs)

detect_blocks(ws, repetitions, prolongations) ==
  IF Len(ws) < 3 THEN <<>>
  ELSE LongWordScan(ws, repetitions, prolongations, 1, GapBlocks(ws))

(******************************* merge *************************************)
\* an acoustic repetition that starts within 0.2 s of a span in prolongs
OverlapsProlong(arep, prols) ==
  \E k \in 1..Len(prols) :
     arep.start >= prols[k].start - 200 /\ arep.start <= prols[k].end + 200

\* faulty variant: the filter keeps every acoustic repetition
FilterAcousticNone(areps, prols) == areps

FilterAcoustic(areps, prols) == SelectSeq(areps, LAMBDA a : ~OverlapsProlong(a, prols))

\* faulty variant: the lists concatenated in the opposite order
CombinedReversed(r, a, p, b) == b \o p \o a \o r

\* the list handed to sorted()
Combined(r, a, p, b) == r \o a \o p \o b

\* sorted(..., key=start): a stable sort; an event goes after the events
\* already placed whose start is not larger
RECURSIVE InsertByStart(_, _)
InsertByStart(s, e) ==
  IF s = <<>> THEN <<e>>
  ELSE IF e.start < s[Len(s)].start
       THEN Append(InsertByStart(SubSeq(s, 1, Len(s) - 1), e), s[Len(s)])
       ELSE Append(s, e)

RECURSIVE SortedFrom(_, _, _)
SortedFrom(s, k, acc) ==
  IF k > Len(s) THEN acc ELSE SortedFrom(s, k + 1, InsertByStart(acc, s[k]))

\* faulty variant: the combined list returned as it is
Unsorted(s) == s

SortedByStart(s) == SortedFrom(s, 1, <<>>)

(******************************* inputs ************************************)
Can == <<"c", "a", "n">>
So == <<"s", "o">>

\* what the signal library returns for a word's slice: steady voiced sound,
\* a burst pattern (onsets 112 ms apart), near silence
Steady == [voiced |-> TRUE, rms |-> <<30, 30, 30, 30, 30>>, onsets |-> <<>>]
Bursts == [voiced |-> FALSE, rms |-> <<30, 30, 30, 30, 30>>, onsets |-> <<5, 12, 19>>]
Silent == [voiced |-> FALSE, rms |-> <<0, 0, 0, 0, 0>>, onsets |-> <<>>]

\* text, duration and acoustic content of a word; the acoustic content is
\* varied where detect_prolongations reads it
WordShapes ==
  {[word |-> Can, dur |-> d, feat |-> Steady] : d \in {300, 2500}}
    \cup {[word |-> So, dur |-> 700, feat |-> f] : f \in {Steady, Bursts, Silent}}

FirstStarts == {1000, 1600}

\* a word starts with the previous one (SameStart) or a gap after its end
SameStart == 0 - 1
Offsets == {SameStart, 0, 1700}

StartAfter(prev, off) == IF off = SameStart THEN prev.start ELSE prev.end + off

MkWord(shape, start) == [word |-> shape.word, start |-> start, end |-> start + shape.dur]

\* the words of a transcript, sorted by start as transcribe_words leaves
\* them: word k has shape sh[k] and starts off[k] after word k - 1
RECURSIVE WordsUpTo(_, _, _, _)
WordsUpTo(sh, off, first, n) ==
  IF n = 0 THEN <<>>
  ELSE IF n = 1 THEN <<MkWord(sh[1], first)>>
       ELSE LET ws == WordsUpTo(sh, off, first, n - 1) IN
            Append(ws, MkWord(sh[n], StartAfter(ws[n - 1], off[n])))

\* onset frames of the whole recording: none, or a train of MaxOnsets onsets
\* 3 frames (96 ms) apart that begins at 1.28 s, 1.6 s or 4.0 s
TrainStarts == {40, 50, 125}
OnsetTrains ==
  {<<>>} \cup {[k \in 1..MaxOnsets |-> f + 3 * (k - 1)] : f \in TrainStarts}

\* the recording covers the transcript and the onsets
RecordingMs(ws, frames) ==
  LET ends == {ws[k].end : k \in 1..Len(ws)}
               \cup {OnsetTimes(frames)[k] : k \in 1..Len(frames)} \cup {0}
  IN  (CHOOSE m \in ends : \A e \in ends : e <= m) + 1000

(*************************** specification *********************************)
Init ==
  /\ \E n \in 0..MaxWords :
       \E sh \in [1..n -> WordShapes], off \in [1..n -> Offsets],
          first \in FirstStarts, fr \in OnsetTrains :
          /\ n = 0 => first = 1000
          /\ n > 0 => off[1] = 0
          /\ words = WordsUpTo(sh, off, first, n)
          /\ y = [onset_frames |-> fr, feat |-> [k \in 1..n |-> sh[k].feat],
                  len_ms |-> RecordingMs(WordsUpTo(sh, off, first, n), fr)]
  /\ pc = "reps"
  /\ reps = <<>>
  /\ prolongs = <<>>
  /\ acoustic_reps = <<>>
  /\ filtered_acoustic_reps = <<>>
  /\ blocks = <<>>
  /\ events = <<>>
  /\ scan_i = 0
  /\ files = NoFiles
  /\ req = <<>>

\* reps = detect_repetitions(words)
DetectRepetitions ==
  /\ pc = "reps"
  /\ reps' = detect_repetitions(words)
  /\ pc' = "prolongs"
  /\ UNCHANGED <<words, y, prolongs, acoustic_reps, filtered_acoustic_reps, blocks, events,
               scan_i, files, req>>

\* prolongs = detect_prolongations(y, sr, words)
DetectProlongations ==
  /\ pc = "prolongs"
  /\ prolongs' = detect_prolongations(y, words)
  /\ pc' = "acoustic"
  /\ UNCHANGED <<words, y, reps, acoustic_reps, filtered_acoustic_reps, blocks, events,
               scan_i, files, req>>

\* acoustic_reps = detect_acoustic_repetitions(y, sr, words)
DetectAcousticRepetitions ==
  /\ pc = "acoustic"
  /\ acoustic_reps' = detect_acoustic_repetitions(y, words)
  /\ pc' = "filter"
  /\ UNCHANGED <<words, y, reps, prolongs, filtered_acoustic_reps, blocks, events,
               scan_i, files, req>>

\* the loop that fills filtered_acoustic_reps
FilterAcousticReps ==
  /\ pc = "filter"
  /\ filtered_acoustic_reps' = FilterAcoustic(acoustic_reps, prolongs)
  /\ pc' = "blocks"
  /\ UNCHANGED <<words, y, reps, prolongs, acoustic_reps, blocks, events,
               scan_i, files, req>>

\* blocks = detect_blocks(y, sr, words, reps, prolongs)
DetectBlocks ==
  /\ pc = "blocks"
  /\ blocks' = detect_blocks(words, reps, prolongs)
  /\ pc' = "sort"
  /\ UNCHANGED <<words, y, reps, prolongs, acoustic_reps, filtered_acoustic_reps, events,
               scan_i, files, req>>

\* events = sorted(reps + filtered_acoustic_reps + prolongs + blocks, key=start)
CombineAndSort ==
  /\ pc = "sort"
  /\ events' = SortedByStart(Combined(reps, filtered_acoustic_reps, prolongs, blocks))
  /\ pc' = "done"
  /\ UNCHANGED <<words, y, reps, prolongs, acoustic_reps, filtered_acoustic_reps, blocks,
               scan_i, files, req>>

Next ==
  \/ DetectRepetitions
  \/ DetectProlongations
  \/ DetectAcousticRepetitions
  \/ FilterAcousticReps
  \/ DetectBlocks
  \/ CombineAndSort

Spec == Init /\ [][Next]_vars

(************ specification of the repetition detector alone ***************)
\* word texts of the transcripts given to detect_repetitions alone; "-"
\* normalises to the empty string
RunTexts ==
  {Can, <<"C", "a", "n", ",">>, <<"c", "a", "n", "_">>, <<"a">>, <<"i">>, <<"I">>, <<"-">>}

\* 0.2 s words 0.1 s apart, the first at 1.0 s or at 5.0 s
RunFirstStarts == {1000, 5000}

\* word k of a transcript of 0.2 s words 0.1 s apart
RunWord(tx, first, k) ==
  [word |-> tx[k], start |-> first + 300 * (k - 1), end |-> first + 300 * (k - 1) + 200]

InitRep ==
  /\ \E n \in 0..MaxRunWords :
       \E tx \in [1..n -> RunTexts], first \in RunFirstStarts :
          /\ n = 0 => first = 1000
          /\ words = [k \in 1..n |-> RunWord(tx, first, k)]
  /\ y = [onset_frames |-> <<>>, feat |-> <<>>, len_ms |-> 0]
  /\ pc = "rep_start"
  /\ reps = <<>>
  /\ prolongs = <<>>
  /\ acoustic_reps = <<>>
  /\ filtered_acoustic_reps = <<>>
  /\ blocks = <<>>
  /\ events = <<>>
  /\ scan_i = 0
  /\ files = NoFiles
  /\ req = <<>>

\* a call of detect_repetitions(words)
CallDetectRepetitions ==
  /\ pc = "rep_start"
  /\ reps' = detect_repetitions(words)
  /\ pc' = "rep_done"
  /\ UNCHANGED <<words, y, prolongs, acoustic_reps, filtered_acoustic_reps, blocks, events,
               scan_i, files, req>>

NextRep == CallDetectRepetitions

SpecRep == InitRep /\ [][NextRep]_vars

(******************************* claims ************************************)
IsSortedByStart(s) == \A k \in 1..(Len(s) - 1) : s[k].start <= s[k + 1].start

\* C1: the events list detect_all returns is non-decreasing in start.
C1_SortInvariant == pc = "done" => IsSortedByStart(events)

\* a run in which the concatenation of the four lists was out of order
C1_Witness ==
  /\ pc = "done"
  /\ ~IsSortedByStart(Combined(reps, filtered_acoustic_reps, prolongs, blocks))
  /\ Len(events) >= 2

Priority(e) ==
  CASE e.type = "repetition" -> 1
    [] e.type = "acoustic_repetition" -> 2
    [] e.type = "prolongation" -> 3
    [] e.type = "block" -> 4

\* C2: two returned events with the same start appear in priority order by
\* kind: Repetition, AcousticRepetition, Prolongation, Block.
C2_TiesInPriorityOrder ==
  pc = "done" =>
    \A j \in 1..Len(events), k \in 1..Len(events) :
       (j < k /\ events[j].start = events[k].start)
          => Priority(events[j]) <= Priority(events[k])

\* a result with two events of different kinds at the same start
C2_Witness ==
  /\ pc = "done"
  /\ \E j \in 1..Len(events), k \in 1..Len(events) :
        /\ j < k
        /\ events[j].start = events[k].start
        /\ events[j].type # events[k].type

LastWordEnd == words[Len(words)].end
LatestWordEnd == CHOOSE m \in {words[k].end : k \in 1..Len(words)} :
                   \A k \in 1..Len(words) : words[k].end <= m

\* C3 as stated: every returned event lies within 0.2 s of the span from the
\* first word's start to the last word's end.
C3_TemporalContainment ==
  (pc = "done" /\ words # <<>>) =>
    \A k \in 1..Len(events) :
       events[k].start >= words[1].start - 200 /\ events[k].end <= LastWordEnd + 200

\* the onsets of the recording in ms, 512 samples a frame at 16 kHz
OnsetMs(k) == (y.onset_frames[k] * ONSET_HOP * 1000) \div SR

\* C3 amended: every Repetition, Prolongation and Block event starts at or
\* after the first word's start and ends at or before the latest end of a
\* word; an AcousticRepetition event lies between the first and the last
\* onset of the recording, wherever the words are.
C3_WordEventsContained ==
  pc = "done" =>
    \A k \in 1..Len(events) :
       IF events[k].type = "acoustic_repetition"
       THEN /\ y.onset_frames # <<>>
            /\ events[k].start >= OnsetMs(1)
            /\ events[k].end <= OnsetMs(Len(y.onset_frames))
       ELSE /\ words # <<>>
            /\ events[k].start >= words[1].start
            /\ events[k].end <= LatestWordEnd

\* a result with a word event and an acoustic repetition after the last word
C3_Witness ==
  /\ pc = "done"
  /\ words # <<>>
  /\ \E k \in 1..Len(events) :
        events[k].type = "acoustic_repetition" /\ events[k].start > LastWordEnd + 200
  /\ \E k \in 1..Len(events) : events[k].type # "acoustic_repetition"

WellFormed(s) == \A k \in 1..Len(s) : 0 <= s[k].start /\ s[k].start <= s[k].end

\* C4: every event a detector emits has 0 <= start <= end.
C4_StartBeforeEnd ==
  /\ WellFormed(reps)
  /\ WellFormed(prolongs)
  /\ WellFormed(acoustic_reps)
  /\ WellFormed(blocks)
  /\ WellFormed(events)

\* a run in which each of the four detectors emitted an event
C4_Witness ==
  /\ pc = "done"
  /\ reps # <<>>
  /\ prolongs # <<>>
  /\ acoustic_reps # <<>>
  /\ blocks # <<>>

IsLongWordBlock(e) == e.type = "block" /\ e.note = "abnormally_long_word"

\* C5: a word reported as an abnormally-long-word Block is neither reported
\* as a Prolongation nor inside the span of a Repetition given to detect_blocks.
C5_LongWordBlockExclusive ==
  \A b \in 1..Len(blocks) :
     IsLongWordBlock(blocks[b]) =>
       /\ ~\E p \in 1..Len(prolongs) :
             prolongs[p].type = "prolongation" /\ prolongs[p].idx = blocks[b].idx
       /\ ~\E r \in 1..Len(reps) :
             /\ reps[r].start <= words[blocks[b].idx].start
             /\ words[blocks[b].idx].end <= reps[r].end

\* an extremely long word after 1.5 s, inside a repetition, that got no Block
C5_Witness ==
  /\ pc = "done"
  /\ \E idx \in 1..Len(words) :
        /\ Len(words) >= 3
        /\ ExtremelyLong(words, idx)
        /\ ~BlockTooEarly(words[idx])
        /\ InRepetition(words[idx], reps)
        /\ ~\E b \in 1..Len(blocks) : blocks[b].idx = idx

NormAt(k) == Normalize(words[k].word)

\* words a..b are a maximal run of one normalised token
IsMaximalRun(a, b) ==
  /\ a <= b
  /\ \A k \in a..b : NormAt(k) = NormAt(a)
  /\ (a = 1 \/ NormAt(a - 1) # NormAt(a))
  /\ (b = Len(words) \/ NormAt(b + 1) # NormAt(a))

\* the repetition events that start at a word of a..b
EventsOfRun(a, b) ==
  {k \in 1..Len(reps) : \E j \in a..b : reps[k].start = words[j].start}

\* C6: a maximal run of n >= 3 words with one multi-character token that
\* starts at or after 1.5 s gives exactly one event, with count n, the first
\* word's start, the last word's end and confidence 0.95; a run of 1 or 2
\* gives none.
C6_OneEventPerRun ==
  pc = "rep_done" =>
    \A a \in 1..Len(words), b \in 1..Len(words) :
       (IsMaximalRun(a, b) /\ Len(NormAt(a)) >= 2) =>
         /\ (b - a + 1 >= 3 /\ words[a].start >= 1500) =>
              /\ Cardinality(EventsOfRun(a, b)) = 1
              /\ \A k \in EventsOfRun(a, b) :
                    /\ reps[k].type = "repetition"
                    /\ reps[k].word = NormAt(a)
                    /\ reps[k].count = b - a + 1
                    /\ reps[k].start = words[a].start
                    /\ reps[k].end = words[b].end
                    /\ reps[k].confidence = 95
         /\ (b - a + 1 <= 2) => EventsOfRun(a, b) = {}

\* a qualifying run whose words are written differently
C6_Witness ==
  /\ pc = "rep_done"
  /\ \E a \in 1..Len(words), b \in 1..Len(words) :
        /\ IsMaximalRun(a, b)
        /\ Len(NormAt(a)) >= 2
        /\ b - a + 1 >= 3
        /\ words[a].start >= 1500
        /\ \E j \in a..b : words[j].word # words[a].word
        /\ EventsOfRun(a, b) # {}

\* C7: a run of a single-character token gives an event only with 4 or more
\* occurrences, or 3 or more for "i"; from 1.5 s on it then does give one.
C7_SingleLetterRuns ==
  pc = "rep_done" =>
    \A a \in 1..Len(words), b \in 1..Len(words) :
       (IsMaximalRun(a, b) /\ Len(NormAt(a)) = 1) =>
         LET n == b - a + 1
             enough == n >= 4 \/ (NormAt(a) = <<"i">> /\ n >= 3)
         IN  /\ EventsOfRun(a, b) # {} => enough
             /\ (enough /\ words[a].start >= 1500) => Cardinality(EventsOfRun(a, b)) = 1

\* three "a" from 1.5 s on, with no event
C7_Witness ==
  /\ pc = "rep_done"
  /\ \E a \in 1..(Len(words) - 2) :
        /\ IsMaximalRun(a, a + 2)
        /\ NormAt(a) = <<"a">>
        /\ words[a].start >= 1500
        /\ EventsOfRun(a, a + 2) = {}

\* the consecutive pairs separated by a silence of 1.5 s or more
AbnormalGaps ==
  {i \in 2..Len(words) : words[i].start - words[i - 1].end >= ABSOLUTE_BLOCK_THRESHOLD}

\* C8: a transcript of two or more words with a single abnormal silence gap
\* gives exactly one gap Block, anchored at the word after the gap.
C8_OneBlockPerSingleGap ==
  (pc = "done" /\ Len(words) >= 2 /\ Cardinality(AbnormalGaps) = 1) =>
    LET gap_blocks == {k \in 1..Len(events) :
                         events[k].type = "block" /\ ~IsLongWordBlock(events[k])}
    IN  /\ Cardinality(gap_blocks) = 1
        /\ \A k \in gap_blocks : events[k].idx \in AbnormalGaps

NoneEarly(s) == \A k \in 1..Len(s) : s[k].start >= 1500

\* C9: no event of any kind starts before 1.5 s.
C9_EarlySuppression ==
  /\ NoneEarly(reps)
  /\ NoneEarly(prolongs)
  /\ NoneEarly(acoustic_reps)
  /\ NoneEarly(blocks)
  /\ NoneEarly(events)

\* a burst train that begins before 1.5 s and is dropped, beside other events
C9_Witness ==
  /\ pc = "done"
  /\ Len(y.onset_frames) >= MIN_BURSTS_FOR_STUTTER
  /\ OnsetMs(1) < 1500
  /\ acoustic_reps = <<>>
  /\ events # <<>>

\* C10: no returned AcousticRepetition starts within 0.2 s of the span of a
\* returned Prolongation.
C10_NoAcousticNearProlongation ==
  pc = "done" =>
    \A a \in 1..Len(events), p \in 1..Len(events) :
       (events[a].type = "acoustic_repetition" /\ events[p].type = "prolongation")
          => ~(/\ events[a].start >= events[p].start - 200
               /\ events[a].start <= events[p].end + 200)

\* an acoustic candidate next to a prolongation, absent from the result
C10_Witness ==
  /\ pc = "done"
  /\ \E a \in 1..Len(acoustic_reps), p \in 1..Len(prolongs) :
        /\ prolongs[p].type = "prolongation"
        /\ acoustic_reps[a].start >= prolongs[p].start - 200
        /\ acoustic_reps[a].start <= prolongs[p].end + 200
        /\ ~\E k \in 1..Len(events) : events[k] = acoustic_reps[a]

\* C11: no AcousticRepetition whose span [start, end] overlaps the span of a
\* Prolongation widened by 0.2 s on each side is returned, also when only its
\* end falls inside the widened span.
C11_NoAcousticOverlappingProlongation ==
  pc = "done" =>
    \A a \in 1..Len(events), p \in 1..Len(events) :
       (events[a].type = "acoustic_repetition" /\ events[p].type = "prolongation")
          => ~(/\ events[a].start <= events[p].end + 200
               /\ events[a].end >= events[p].start - 200)

(************** specification of detect_all with a failing detector ********)
\* the events list of detect_prolongations after the first n words
RECURSIVE ProlongPrefix(_, _, _)
ProlongPrefix(wave, ws, n) ==
  IF n = 0 THEN <<>> ELSE ProlongWord(wave, ws, n, ProlongPrefix(wave, ws, n - 1))

\* word idx gets as far as the librosa.feature.rms call of its slice
ReachesRms(wave, ws, idx, evs) ==
  /\ ~(WordDurMs(ws[idx]) < MIN_WORD_MS_FOR_PROLONG)
  /\ ~IgnoredWord(ws[idx])
  /\ ~AfterProlonged(ws, idx, evs)
  /\ ~AbnormalGapBefore(ws, idx)
  /\ ~VeryLongWord(ws, idx)
  /\ ~(EFrame(wave, ws[idx]) - SFrame(wave, ws[idx]) < 1)
  /\ SegmentLen(wave, ws[idx]) > 0

\* the rms call of word fault.at is made, and raises
RmsRaises(wave, ws, fault) ==
  /\ fault.in = "rms"
  /\ fault.at \in 1..Len(ws)
  /\ ReachesRms(wave, ws, fault.at, ProlongPrefix(wave, ws, fault.at - 1))

\* faulty variant: the handler of detect_prolongations empties the list
ProlongationsCaughtEmpty(wave, ws, fault) ==
  IF fault.in = "pyin" \/ RmsRaises(wave, ws, fault) THEN <<>>
  ELSE detect_prolongations(wave, ws)

\* detect_prolongations when a library call raises inside its try block: the
\* except clause prints a warning and the function returns events as it is
ProlongationsCaught(wave, ws, fault) ==
  IF fault.in = "pyin" THEN <<>>
  ELSE IF RmsRaises(wave, ws, fault) THEN ProlongPrefix(wave, ws, fault.at - 1)
       ELSE detect_prolongations(wave, ws)

\* detect_acoustic_repetitions when onset_detect raises inside its try block
AcousticCaught(wave, ws, fault) ==
  IF fault.in = "onset_detect" THEN <<>> ELSE detect_acoustic_repetitions(wave, ws)

\* the library call that raises: pyin, the rms call of one word, or the
\* global onset detection
Faults(n) ==
  {[in |-> d, at |-> 0] : d \in {"pyin", "onset_detect"}}
    \cup {[in |-> "rms", at |-> k] : k \in 1..n}

FaultOffsets == {0, 1700}

InitFault ==
  /\ \E n \in 0..MaxWords :
       \E sh \in [1..n -> WordShapes], off \in [1..n -> FaultOffsets],
          fault \in Faults(n) :
          /\ n > 0 => off[1] = 0
          /\ words = WordsUpTo(sh, off, 1600, n)
          /\ y = [onset_frames |-> [k \in 1..MaxOnsets |-> 125 + 3 * (k - 1)],
                  feat |-> [k \in 1..n |-> sh[k].feat],
                  len_ms |-> RecordingMs(WordsUpTo(sh, off, 1600, n),
                                         [k \in 1..MaxOnsets |-> 125 + 3 * (k - 1)]),
                  fault |-> fault]
  /\ pc = "reps"
  /\ reps = <<>>
  /\ prolongs = <<>>
  /\ acoustic_reps = <<>>
  /\ filtered_acoustic_reps = <<>>
  /\ blocks = <<>>
  /\ events = <<>>
  /\ scan_i = 0
  /\ files = NoFiles
  /\ req = <<>>

\* prolongs = detect_prolongations(y, sr, words), exceptions caught inside
ProlongationsOrCaught ==
  /\ pc = "prolongs"
  /\ prolongs' = ProlongationsCaught(y, words, y.fault)
  /\ pc' = "acoustic"
  /\ UNCHANGED <<words, y, reps, acoustic_reps, filtered_acoustic_reps, blocks, events,
               scan_i, files, req>>

\* acoustic_reps = detect_acoustic_repetitions(y, sr, words), exceptions caught inside
AcousticOrCaught ==
  /\ pc = "acoustic"
  /\ acoustic_reps' = AcousticCaught(y, words, y.fault)
  /\ pc' = "filter"
  /\ UNCHANGED <<words, y, reps, prolongs, filtered_acoustic_reps, blocks, events,
               scan_i, files, req>>

NextFault ==
  \/ DetectRepetitions
  \/ ProlongationsOrCaught
  \/ AcousticOrCaught
  \/ FilterAcousticReps
  \/ DetectBlocks
  \/ CombineAndSort

SpecFault == InitFault /\ [][NextFault]_vars

\* the failure of the run took place
FaultTookPlace ==
  \/ y.fault.in \in {"pyin", "onset_detect"}
  \/ RmsRaises(y, words, y.fault)

\* C12: when one detector fails, detect_all still returns, the failed
\* detector contributes no event at all and the other detectors' events are
\* returned.
C12_FaultIsolation ==
  (pc = "done" /\ FaultTookPlace) =>
    /\ y.fault.in \in {"pyin", "rms"} => prolongs = <<>>
    /\ y.fault.in = "onset_detect" => acoustic_reps = <<>>

StartsWithinHalfSecondAfter(t) ==
  {j \in 1..Len(words) : t <= words[j].start /\ words[j].start < t + 500}

C15_EveryLongGapIsABlock ==
  pc = "done" =>
    \A i \in 2..Len(words) :
       (/\ words[i].start - words[i - 1].end >= ABSOLUTE_BLOCK_THRESHOLD
        /\ words[i].start >= EARLY_CUTOFF)
         => \E b \in 1..Len(blocks) :
               /\ blocks[b].type = "block"
               /\ blocks[b].start = words[i].start
               /\ blocks[b].end = words[i].end
               /\ blocks[b].gap_duration = words[i].start - words[i - 1].end

\* the word of Block b is attributed to a Repetition given to detect_blocks
\* (its start lies in the Repetition's span) or to an event of
\* detect_prolongations (which starts within 0.1 s of it)
AttributedElsewhere(b) ==
  \/ \E r \in 1..Len(reps) : reps[r].start <= b.start /\ b.start <= reps[r].end
  \/ \E p \in 1..Len(prolongs) : Abs(prolongs[p].start - b.start) < 100

Exists(name) == name \in DOMAIN files

\* the folder after writing content c to the file called name
Written(name, c) ==
  [n \in DOMAIN files \cup {name} |-> IF n = name THEN c ELSE files[n]]

\* the folder after os.remove of the file called name
Removed(name) == [n \in DOMAIN files \ {name} |-> files[n]]

At(r, label) == req[r].pc = label

Goto(r, label) == [req EXCEPT ![r].pc = label]

pipeline == <<words, y, pc, reps, prolongs, acoustic_reps, filtered_acoustic_reps,
              blocks, events, scan_i>>

InitServer ==
  /\ words = <<>>
  /\ y = [onset_frames |-> <<>>, feat |-> <<>>, len_ms |-> 0]
  /\ pc = "serving"
  /\ reps = <<>>
  /\ prolongs = <<>>
  /\ acoustic_reps = <<>>
  /\ filtered_acoustic_reps = <<>>
  /\ blocks = <<>>
  /\ events = <<>>
  /\ scan_i = 0
  /\ files = NoFiles
  /\ \E n \in 1..MaxRequests :
        req = [r \in 1..n |-> [pc |-> "save", audio |-> 0, words |-> 0, y |-> 0]]

\* audio_file.save(webm_path)
SaveUpload(r) ==
  /\ At(r, "save")
  /\ files' = Written("webm", r)
  /\ req' = Goto(r, "from_file")
  /\ UNCHANGED pipeline

\* audio = AudioSegment.from_file(webm_path); a missing file raises, and the
\* handler of analyze_speech answers with an error
LoadWebm(r) ==
  /\ At(r, "from_file")
  /\ req' = IF Exists("webm")
            THEN [req EXCEPT ![r].pc = "export_mp3", ![r].audio = files["webm"]]
            ELSE Goto(r, "failed")
  /\ UNCHANGED <<files, pipeline>>

\* audio.export(mp3_path, format="mp3")
ExportMp3(r) ==
  /\ At(r, "export_mp3")
  /\ files' = Written("mp3", req[r].audio)
  /\ req' = Goto(r, "hash")
  /\ UNCHANGED pipeline

\* os.path.getsize(mp3_path) and the md5 of its bytes
HashMp3(r) ==
  /\ At(r, "hash")
  /\ req' = IF Exists("mp3") THEN Goto(r, "wav_exists") ELSE Goto(r, "failed")
  /\ UNCHANGED <<files, pipeline>>

\* convert_to_wav: if os.path.exists(wav_path)
WavExists(r) ==
  /\ At(r, "wav_exists")
  /\ req' = IF Exists("wav") THEN Goto(r, "wav_remove") ELSE Goto(r, "from_mp3")
  /\ UNCHANGED <<files, pipeline>>

\* convert_to_wav: os.remove(wav_path)
RemoveOldWav(r) ==
  /\ At(r, "wav_remove")
  /\ IF Exists("wav")
     THEN files' = Removed("wav") /\ req' = Goto(r, "from_mp3")
     ELSE files' = files /\ req' = Goto(r, "failed")
  /\ UNCHANGED pipeline

\* convert_to_wav: AudioSegment.from_mp3(file_path)
LoadMp3(r) ==
  /\ At(r, "from_mp3")
  /\ req' = IF Exists("mp3")
            THEN [req EXCEPT ![r].pc = "export_wav", ![r].audio = files["mp3"]]
            ELSE Goto(r, "failed")
  /\ UNCHANGED <<files, pipeline>>

\* convert_to_wav: .export(wav_path, format="wav")
ExportWav(r) ==
  /\ At(r, "export_wav")
  /\ files' = Written("wav", req[r].audio)
  /\ req' = Goto(r, "transcribe")
  /\ UNCHANGED pipeline

\* words = transcribe_words(audio_file)
TranscribeWav(r) ==
  /\ At(r, "transcribe")
  /\ req' = IF Exists("wav")
            THEN [req EXCEPT ![r].pc = "load", ![r].words = files["wav"]]
            ELSE Goto(r, "failed")
  /\ UNCHANGED <<files, pipeline>>

\* y, sr = load_audio(audio_file); the detectors that follow touch no file
LoadWav(r) ==
  /\ At(r, "load")
  /\ req' = IF Exists("wav")
            THEN [req EXCEPT ![r].pc = "rm_webm", ![r].y = files["wav"]]
            ELSE Goto(r, "failed")
  /\ UNCHANGED <<files, pipeline>>

\* os.remove(webm_path); an exception ends the clean-up ("except: pass")
RemoveWebm(r) ==
  /\ At(r, "rm_webm")
  /\ IF Exists("webm")
     THEN files' = Removed("webm") /\ req' = Goto(r, "rm_mp3")
     ELSE files' = files /\ req' = Goto(r, "done")
  /\ UNCHANGED pipeline

\* os.remove(mp3_path)
RemoveMp3(r) ==
  /\ At(r, "rm_mp3")
  /\ IF Exists("mp3")
     THEN files' = Removed("mp3") /\ req' = Goto(r, "wav_check")
     ELSE files' = files /\ req' = Goto(r, "done")
  /\ UNCHANGED pipeline

\* if os.path.exists(wav_path)
CleanupWavExists(r) ==
  /\ At(r, "wav_check")
  /\ req' = IF Exists("wav") THEN Goto(r, "rm_wav") ELSE Goto(r, "done")
  /\ UNCHANGED <<files, pipeline>>

\* os.remove(wav_path), then return jsonify(response_data)
RemoveWav(r) ==
  /\ At(r, "rm_wav")
  /\ files' = IF Exists("wav") THEN Removed("wav") ELSE files
  /\ req' = Goto(r, "done")
  /\ UNCHANGED pipeline

NextServer ==
  \/ \E r \in DOMAIN req : SaveUpload(r)
  \/ \E r \in DOMAIN req : LoadWebm(r)
  \/ \E r \in DOMAIN req : ExportMp3(r)
  \/ \E r \in DOMAIN req : HashMp3(r)
  \/ \E r \in DOMAIN req : WavExists(r)
  \/ \E r \in DOMAIN req : RemoveOldWav(r)
  \/ \E r \in DOMAIN req : LoadMp3(r)
  \/ \E r \in DOMAIN req : ExportWav(r)
  \/ \E r \in DOMAIN req : TranscribeWav(r)
  \/ \E r \in DOMAIN req : LoadWav(r)
  \/ \E r \in DOMAIN req : RemoveWebm(r)
  \/ \E r \in DOMAIN req : RemoveMp3(r)
  \/ \E r \in DOMAIN req : CleanupWavExists(r)
  \/ \E r \in DOMAIN req : RemoveWav(r)

SpecServer == InitServer /\ [][NextServer]_vars

\* C17: requests served interleaved share no mutable state: no request finds
\* a file of its own removed by another one, and what a request reads back
\* from the upload folder (the audio it converts, the words and the samples
\* it analyses) comes from its own upload.
C17_RequestsIsolated ==
  \A r \in DOMAIN req :
     /\ req[r].pc # "failed"
     /\ req[r].audio \in {0, r}
     /\ req[r].words \in {0, r}
     /\ req[r].y \in {0, r}

(******** specification of the loop of detect_repetitions, step by step ****)
LoopTexts == {Can, <<"a">>, <<"-">>}

InitRepLoop ==
  /\ \E n \in 0..MaxRunWords :
       \E tx \in [1..n -> LoopTexts], first \in RunFirstStarts :
          /\ n = 0 => first = 1000
          /\ words = [k \in 1..n |-> RunWord(tx, first, k)]
  /\ y = [onset_frames |-> <<>>, feat |-> <<>>, len_ms |-> 0]
  /\ pc = "rep_loop"
  /\ reps = <<>>
  /\ prolongs = <<>>
  /\ acoustic_reps = <<>>
  /\ filtered_acoustic_reps = <<>>
  /\ blocks = <<>>
  /\ events = <<>>
  /\ scan_i = 1
  /\ files = NoFiles
  /\ req = <<>>

\* one iteration of "while i < len(words)"; reps holds the local list events
RepetitionIteration ==
  /\ pc = "rep_loop"
  /\ scan_i <= Len(words)
  /\ scan_i' = IterationEnd(words, scan_i)
  /\ reps' = IterationEvents(words, scan_i, reps)
  /\ UNCHANGED <<words, y, pc, prolongs, acoustic_reps, filtered_acoustic_reps,
                 blocks, events, files, req>>

\* the loop test fails: return events
RepetitionReturn ==
  /\ pc = "rep_loop"
  /\ ~(scan_i <= Len(words))
  /\ pc' = "rep_returned"
  /\ UNCHANGED <<words, y, reps, prolongs, acoustic_reps, filtered_acoustic_reps,
                 blocks, events, scan_i, files, req>>

NextRepLoop ==
  \/ RepetitionIteration
  \/ RepetitionReturn

\* a running call keeps executing its statements
SpecRepLoop == InitRepLoop /\ [][NextRepLoop]_vars /\ WF_vars(NextRepLoop)

\* C19: detect_repetitions terminates on every finite word list, also with
\* words that normalize to the empty string: the scan index grows in every
\* iteration of the outer loop, the call returns, and no event has the empty
\* string as its token.
C19_ScanTerminates ==
  /\ [][pc' = "rep_loop" => scan_i' > scan_i]_vars
  /\ <>(pc = "rep_returned")
  /\ [](\A k \in 1..Len(reps) : reps[k].word # <<>>)

\* a returned scan over a list with an empty-normalized word and a reported run
C19_Witness ==
  /\ pc = "rep_returned"
  /\ \E k \in 1..Len(words) : Normalize(words[k].word) = <<>>
  /\ reps # <<>>

\* a text without its non-alphanumeric characters (punctuation, whitespace,
\* underscore), lower-cased
AlnumLower(s) == SelectSeq(Lower(s), LAMBDA c : c \notin Punctuation \cup {"_"})

\* C20: two consecutive words are grouped into the same repetition run
\* exactly when their texts are equal after removing every non-alphanumeric
\* character (punctuation, whitespace, underscore) and lower-casing.
C20_GroupedIffEqualAlphanumerics ==
  pc = "rep_done" =>
    \A k \in 1..(Len(words) - 1) :
       AlnumLower(words[k].word) # <<>> =>
          (RunEnd(words, k, Normalize(words[k].word)) > k
             <=> AlnumLower(words[k].word) = AlnumLower(words[k + 1].word))

(********* specification of detect_acoustic_repetitions on its own *********)
\* distances between neighbouring onsets, in frames of 32 ms: 64 ms (too
\* close), 96 ms and 192 ms (burst range), 224 ms (too far)
BurstGaps == {2, 3, 6, 7}
BurstFirstFrames == {40, 50}

\* the frames of n onsets, the first at frame first, onset k + 1 following
\* onset k at distance gap[k]
RECURSIVE FramesUpTo(_, _, _)
FramesUpTo(first, gap, n) ==
  IF n = 0 THEN <<>>
  ELSE IF n = 1 THEN <<first>>
       ELSE LET fs == FramesUpTo(first, gap, n - 1) IN Append(fs, fs[n - 1] + gap[n - 1])

InitAcoustic ==
  /\ \E n \in 0..MaxBursts :
       \E gap \in [1..(n - 1) -> BurstGaps], first \in BurstFirstFrames :
          /\ n = 0 => first = 40
          /\ y = [onset_frames |-> FramesUpTo(first, gap, n), feat |-> <<>>,
                  len_ms |-> 0]
  /\ words = <<>>
  /\ pc = "acoustic_start"
  /\ reps = <<>>
  /\ prolongs = <<>>
  /\ acoustic_reps = <<>>
  /\ filtered_acoustic_reps = <<>>
  /\ blocks = <<>>
  /\ events = <<>>
  /\ scan_i = 0
  /\ files = NoFiles
  /\ req = <<>>

\* a call of detect_acoustic_repetitions(y, sr, words)
CallDetectAcousticRepetitions ==
  /\ pc = "acoustic_start"
  /\ acoustic_reps' = detect_acoustic_repetitions(y, words)
  /\ pc' = "acoustic_done"
  /\ UNCHANGED <<words, y, reps, prolongs, filtered_acoustic_reps, blocks, events,
                 scan_i, files, req>>

NextAcoustic == CallDetectAcousticRepetitions

SpecAcoustic == InitAcoustic /\ [][NextAcoustic]_vars

\* the onset times of the recording, in ms
RecordingOnsets == OnsetTimes(y.onset_frames)

InBurstRange(gap_ms) == MIN_BURST_GAP_MS <= gap_ms /\ gap_ms <= MAX_BURST_GAP_MS

\* onsets a..b are a maximal run of onsets with every adjacent gap in range
IsMaximalBurstRun(a, b) ==
  LET t == RecordingOnsets IN
  /\ \A k \in a..(b - 1) : InBurstRange(t[k + 1] - t[k])
  /\ a = 1 \/ ~InBurstRange(t[a] - t[a - 1])
  /\ b = Len(t) \/ ~InBurstRange(t[b + 1] - t[b])

\* C21: every AcousticRepetition is a maximal run of consecutive onsets with
\* all adjacent gaps in [80, 200] ms, counts the onsets of the run (at least
\* 5), starts at the first and ends at the last of them; no onset belongs to
\* two events; fewer than 5 onsets in the recording give no event.
C21_EventsAreMaximalBurstRuns ==
  pc = "acoustic_done" =>
    LET t == RecordingOnsets IN
    /\ \A e \in 1..Len(acoustic_reps) :
          \E a \in 1..Len(t), b \in 1..Len(t) :
             /\ a <= b
             /\ IsMaximalBurstRun(a, b)
             /\ acoustic_reps[e].start = t[a]
             /\ acoustic_reps[e].end = t[b]
             /\ acoustic_reps[e].count = b - a + 1
             /\ acoustic_reps[e].count >= MIN_BURSTS_FOR_STUTTER
    /\ \A e \in 1..Len(acoustic_reps), f \in 1..Len(acoustic_reps) :
          e # f => ~\E k \in 1..Len(t) :
                      /\ acoustic_reps[e].start <= t[k] /\ t[k] <= acoustic_reps[e].end
                      /\ acoustic_reps[f].start <= t[k] /\ t[k] <= acoustic_reps[f].end
    /\ Len(t) < MIN_BURSTS_FOR_STUTTER => acoustic_reps = <<>>

\* an event for a run that leaves out some onset of the recording
C21_Witness ==
  /\ pc = "acoustic_done"
  /\ \E e \in 1..Len(acoustic_reps) :
        acoustic_reps[e].count < Len(y.onset_frames)

(****** specification of the sound inference of the acoustic detector ******)
\* one qualifying cluster, 5 onsets 96 ms apart from 1.600 s to 1.984 s, and
\* words that start before its end, at its end, within 0.5 s after it and at
\* 0.5 s after it
TargetTexts ==
  {So, <<"'", "S", "t", "o", "p">>, <<"t", "h", "e", ".">>, <<".", ".", ".">>}
TargetStarts == {1900, 1984, 2100, 2400, 2484}

InitInfer ==
  /\ \E n \in 0..MaxTargets :
       \E tx \in [1..n -> TargetTexts], st \in [1..n -> TargetStarts] :
          /\ \A k \in 1..(n - 1) : st[k] <= st[k + 1]
          /\ words = [k \in 1..n |-> [word |-> tx[k], start |-> st[k], end |-> st[k] + 200]]
  /\ y = [onset_frames |-> <<50, 53, 56, 59, 62>>, feat |-> <<>>, len_ms |-> 0]
  /\ pc = "acoustic_start"
  /\ reps = <<>>
  /\ prolongs = <<>>
  /\ acoustic_reps = <<>>
  /\ filtered_acoustic_reps = <<>>
  /\ blocks = <<>>
  /\ events = <<>>
  /\ scan_i = 0
  /\ files = NoFiles
  /\ req = <<>>

SpecInfer == InitInfer /\ [][NextAcoustic]_vars

\* word j is the nearest word starting within 0.5 s after time t, the first
\* in list order among equally near ones
IsNearestAfter(j, t) ==
  /\ 0 <= words[j].start - t /\ words[j].start - t < 500
  /\ \A k \in 1..Len(words) :
        (0 <= words[k].start - t /\ words[k].start - t < 500)
          => \/ words[j].start < words[k].start
             \/ (words[j].start = words[k].start /\ j <= k)

\* C22: the target word of a cluster ending at t is the word with the
\* smallest start - t among the words with 0 <= start - t < 0.5 s, the first
\* in list order on ties; the inferred sound is the first two characters of
\* the word, lower-cased and without surrounding punctuation, when they are
\* one of the fixed consonant clusters, and its first character otherwise.
C22_TargetAndInferredSound ==
  pc = "acoustic_done" =>
    \A e \in 1..Len(acoustic_reps) :
       \A j \in 1..Len(words) :
          IsNearestAfter(j, acoustic_reps[e].end) =>
             LET txt == Lower(Strip(words[j].word, StripChars)) IN
             /\ acoustic_reps[e].target_word = words[j].word
             /\ IF Len(txt) >= 2 /\ <<txt[1], txt[2]>> \in consonant_clusters
                THEN acoustic_reps[e].inferred_sound = <<txt[1], txt[2]>>
                ELSE txt # <<>> => acoustic_reps[e].inferred_sound = <<txt[1]>>

\* two words start together within the window; the first one, which begins
\* with a consonant cluster behind a quote, is the target
C22_Witness ==
  /\ pc = "acoustic_done"
  /\ Len(words) = 2
  /\ words[1].start = words[2].start
  /\ words[1].word # words[2].word
  /\ \E e \in 1..Len(acoustic_reps) :
        /\ IsNearestAfter(1, acoustic_reps[e].end)
        /\ acoustic_reps[e].inferred_sound = <<"s", "t">>

(************ specification of detect_prolongations on its own *************)
\* energy without voicing and without bursts
Unvoiced == [voiced |-> FALSE, rms |-> <<30, 30, 30, 30, 30>>, onsets |-> <<>>]

\* a 0.7 s word that is not in the stoplist, with each acoustic content, a
\* stoplist word and a word shorter than 0.5 s
ProlongShapes ==
  {[word |-> So, dur |-> 700, feat |-> f] : f \in {Steady, Unvoiced, Bursts, Silent}}
    \cup {[word |-> Can, dur |-> 700, feat |-> Steady],
          [word |-> So, dur |-> 300, feat |-> Steady]}

\* the silence in front of a word: 0.1 s or 0.4 s; the first word starts at
\* 1.0 s, every later one after 1.5 s
ProlongOffsets == {100, 400}

InitProlong ==
  /\ \E n \in 0..MaxProlongWords :
       \E sh \in [1..n -> ProlongShapes], off \in [1..n -> ProlongOffsets] :
          /\ n > 0 => off[1] = 100
          /\ words = WordsUpTo(sh, off, 1000, n)
          /\ y = [onset_frames |-> <<>>,
                  feat |-> [k \in 1..n |-> sh[k].feat],
                  len_ms |-> RecordingMs(WordsUpTo(sh, off, 1000, n), <<>>)]
  /\ pc = "prolong_start"
  /\ reps = <<>>
  /\ prolongs = <<>>
  /\ acoustic_reps = <<>>
  /\ filtered_acoustic_reps = <<>>
  /\ blocks = <<>>
  /\ events = <<>>
  /\ scan_i = 0
  /\ files = NoFiles
  /\ req = <<>>

\* a call of detect_prolongations(y, sr, words)
CallDetectProlongations ==
  /\ pc = "prolong_start"
  /\ prolongs' = detect_prolongations(y, words)
  /\ pc' = "prolong_done"
  /\ UNCHANGED <<words, y, reps, acoustic_reps, filtered_acoustic_reps, blocks, events,
                 scan_i, files, req>>

NextProlong == CallDetectProlongations

SpecProlong == InitProlong /\ [][NextProlong]_vars

\* C23: detect_prolongations emits no event, Prolongation or reclassified
\* Repetition, for a word shorter than 500 ms, for a stoplist word, for a
\* word with a mean RMS below the near-silence floor, or for a word whose
\* preceding gap exceeds twice the median gap.
C23_RejectedWordsGetNoEvent ==
  pc = "prolong_done" =>
    \A e \in 1..Len(prolongs) :
       LET idx == prolongs[e].idx
           rms == y.feat[idx].rms
       IN  /\ words[idx].end - words[idx].start >= MIN_WORD_MS_FOR_PROLONG
           /\ WordClean(words[idx].word) \notin IGNORE_SHORT_WORDS \cup IGNORE_CONTRACTIONS
           /\ SumSeq(rms) >= 10 * Len(rms)
           /\ idx > 1 => words[idx].start - words[idx - 1].end <= MedianGap2(words)

\* a steady 0.7 s word behind an abnormal gap gets no event while another
\* word of the transcript does
C23_Witness ==
  /\ pc = "prolong_done"
  /\ prolongs # <<>>
  /\ \E idx \in 2..Len(words) :
        /\ words[idx].start - words[idx - 1].end > MedianGap2(words)
        /\ words[idx].word = So
        /\ words[idx].end - words[idx].start = 700
        /\ y.feat[idx] = Steady
        /\ words[idx].start >= EARLY_CUTOFF
        /\ \A e \in 1..Len(prolongs) : prolongs[e].idx # idx

\* the longest voiced run of word idx in ms: the frames of the word when its
\* sound is voiced, none when it is not
LongestVoicedRunMs(idx) ==
  IF y.feat[idx].voiced
  THEN ((EFrame(y, words[idx]) - SFrame(y, words[idx])) * FRAME_HOP * 1000) \div SR
  ELSE 0

\* the four rejection conditions of C23
RejectedForProlongation(idx) ==
  \/ words[idx].end - words[idx].start < MIN_WORD_MS_FOR_PROLONG
  \/ WordClean(words[idx].word) \in IGNORE_SHORT_WORDS \cup IGNORE_CONTRACTIONS
  \/ SumSeq(y.feat[idx].rms) < 10 * Len(y.feat[idx].rms)
  \/ (idx > 1 /\ words[idx].start - words[idx - 1].end > MedianGap2(words))

\* C24: a word starting at or after 1.5 s that passes the four rejection
\* conditions and is not reclassified as an internal repetition is reported
\* as a Prolongation exactly when (a) its longest voiced run exceeds 650 ms
\* and 70% of the word, or (b) it is abnormally long and more than 60% of its
\* RMS frames exceed 30% of its mean RMS.
C24_ProlongationExactlyWhenVoicedOrSustained ==
  pc = "prolong_done" =>
    \A idx \in 1..Len(words) :
       (/\ words[idx].start >= EARLY_CUTOFF
        /\ ~RejectedForProlongation(idx)
        /\ ~IsActuallyRepetition(y, words, idx))
         => ((\E e \in 1..Len(prolongs) :
                 prolongs[e].type = "prolongation" /\ prolongs[e].idx = idx)
               <=> \/ /\ LongestVoicedRunMs(idx) > PROLONG_MS
                      /\ 100 * LongestVoicedRunMs(idx)
                           > PROLONG_RATIO * (words[idx].end - words[idx].start)
                   \/ /\ words[idx].end - words[idx].start > 1000
                      /\ 10 * EnergyFrames(y.feat[idx].rms) > 6 * Len(y.feat[idx].rms))

\* word idx gets as far as the internal-repetition test of detect_prolongations
ReachesRepetitionTest(idx) ==
  /\ ReachesRms(y, words, idx, ProlongPrefix(y, words, idx - 1))
  /\ ~NearSilent(y, words, idx)
  /\ ~SilenceInsideWord(y, words, idx)
  /\ ~SwallowedStutter(y, words, idx)

\* at least 3 onsets in the word's own slice, at least 2 of the gaps between
\* neighbouring onsets within 90-240 ms
HasBurstPattern(idx) ==
  LET t == WordOnsetTimes(y, idx) IN
  /\ Len(t) >= 3
  /\ Cardinality({k \in 2..Len(t) : 90 <= t[k] - t[k - 1] /\ t[k] - t[k - 1] <= 240}) >= 2

EventsOfWord(idx) == {e \in 1..Len(prolongs) : prolongs[e].idx = idx}

\* C25 as stated: a word that reaches the internal-repetition test with the
\* burst pattern yields a Repetition event with the word's first character as
\* token and never a Prolongation; at most one event per word.
C25_BurstPatternYieldsRepetition ==
  pc = "prolong_done" =>
    /\ \A idx \in 1..Len(words) :
          (ReachesRepetitionTest(idx) /\ HasBurstPattern(idx)) =>
             /\ \E e \in EventsOfWord(idx) :
                   /\ prolongs[e].type = "repetition"
                   /\ prolongs[e].word = <<WordClean(words[idx].word)[1]>>
             /\ \A e \in EventsOfWord(idx) : prolongs[e].type # "prolongation"
    /\ \A idx \in 1..Len(words) : Cardinality(EventsOfWord(idx)) <= 1

\* C25 amended: such a word, when it is longer than 500 ms, yields a
\* Repetition event (token: the first character of the trimmed, lower-cased
\* word; count: the number of onsets) only if it starts at or after 1.5 s; a
\* word that starts earlier yields no event. In neither case is it reported
\* as a Prolongation, and detect_prolongations emits at most one event per
\* word.
C25_BurstPatternAfterCutoffYieldsRepetition ==
  pc = "prolong_done" =>
    /\ \A idx \in 1..Len(words) :
          (/\ ReachesRepetitionTest(idx)
           /\ HasBurstPattern(idx)
           /\ words[idx].end - words[idx].start > 500) =>
             IF words[idx].start >= EARLY_CUTOFF
             THEN \E e \in EventsOfWord(idx) :
                     /\ EventsOfWord(idx) = {e}
                     /\ prolongs[e].type = "repetition"
                     /\ prolongs[e].word = <<WordClean(words[idx].word)[1]>>
                     /\ prolongs[e].count = Len(y.feat[idx].onsets)
             ELSE EventsOfWord(idx) = {}
    /\ \A idx \in 1..Len(words) : Cardinality(EventsOfWord(idx)) <= 1

\* the first word has the burst pattern but starts at 1.0 s and gets no
\* event; the second has it too and is reported as a Repetition
C25_Witness ==
  /\ pc = "prolong_done"
  /\ Len(words) >= 2
  /\ ReachesRepetitionTest(1) /\ HasBurstPattern(1) /\ EventsOfWord(1) = {}
  /\ ReachesRepetitionTest(2) /\ HasBurstPattern(2)
  /\ \E e \in EventsOfWord(2) : prolongs[e].type = "repetition"

\* twice the median of the word durations of the transcript
SessionMedianDuration2 ==
  LET d == SortAsc([k \in 1..Len(words) |-> words[k].end - words[k].start])
      n == Len(d)
  IN  IF n % 2 = 1 THEN 2 * d[(n + 1) \div 2] ELSE d[n \div 2] + d[n \div 2 + 1]

\* C26: detect_blocks emits a duration-based Block (note
\* "abnormally_long_word", confidence 0.70) for a word exactly when the word
\* starts at or after 1.5 s, is longer than 5 times the median word duration
\* and than 2.0 s, was not flagged by the gap check, and is not part of a
\* repetition or prolongation.
C26_LongWordBlockExactlyWhen ==
  pc = "done" =>
    \A idx \in 1..Len(words) :
       LET w == words[idx] IN
       (\E b \in 1..Len(blocks) :
           /\ blocks[b].type = "block"
           /\ blocks[b].note = "abnormally_long_word"
           /\ blocks[b].confidence = 70
           /\ blocks[b].word = w.word
           /\ blocks[b].start = w.start
           /\ blocks[b].end = w.end)
         <=> /\ w.start >= EARLY_CUTOFF
             /\ 2 * (w.end - w.start) > 5 * SessionMedianDuration2
             /\ w.end - w.start > 2000
             /\ ~\E b \in 1..Len(blocks) :
                   /\ blocks[b].note # "abnormally_long_word"
                   /\ blocks[b].word = w.word
                   /\ Abs(blocks[b].start - w.start) < 100
             /\ ~\E r \in 1..Len(reps) : reps[r].start <= w.start /\ w.start <= reps[r].end
             /\ ~\E p \in 1..Len(prolongs) : Abs(prolongs[p].start - w.start) < 100

\* a duration-based Block was emitted
C26_Witness ==
  /\ pc = "done"
  /\ \E b \in 1..Len(blocks) : blocks[b].note = "abnormally_long_word"

\* C27: no two consecutive words less than 0.3 s apart are both reported as
\* Prolongation: the word right behind a flagged word is skipped.
C27_NoAdjacentProlongations ==
  pc = "prolong_done" =>
    \A idx \in 2..Len(words) :
       words[idx].start - words[idx - 1].end < 300 =>
          ~(/\ \E e \in 1..Len(prolongs) :
                  prolongs[e].type = "prolongation" /\ prolongs[e].idx = idx - 1
            /\ \E e \in 1..Len(prolongs) :
                  prolongs[e].type = "prolongation" /\ prolongs[e].idx = idx)

\* a steady word 0.1 s behind a word reported as Prolongation gets no event
C27_Witness ==
  /\ pc = "prolong_done"
  /\ \E idx \in 2..Len(words) :
        /\ words[idx].start - words[idx - 1].end < 300
        /\ \E e \in 1..Len(prolongs) :
              prolongs[e].type = "prolongation" /\ prolongs[e].idx = idx - 1
        /\ words[idx].word = So
        /\ words[idx].end - words[idx].start = 700
        /\ y.feat[idx] = Steady
        /\ ~(words[idx].start - words[idx - 1].end > MedianGap2(words))
        /\ \A e \in 1..Len(prolongs) : prolongs[e].idx # idx

(****** specification of detect_repetitions on transcripts with room ******)
(****** for several runs                                             ******)
LongRunTexts == {Can, <<"C", "a", "n", ",">>, <<"i">>, <<"-">>}

InitRepLong ==
  /\ \E n \in 0..MaxLongRunWords :
       \E tx \in [1..n -> LongRunTexts], first \in RunFirstStarts :
          /\ n = 0 => first = 1000
          /\ words = [k \in 1..n |-> RunWord(tx, first, k)]
  /\ y = [onset_frames |-> <<>>, feat |-> <<>>, len_ms |-> 0]
  /\ pc = "rep_start"
  /\ reps = <<>>
  /\ prolongs = <<>>
  /\ acoustic_reps = <<>>
  /\ filtered_acoustic_reps = <<>>
  /\ blocks = <<>>
  /\ events = <<>>
  /\ scan_i = 0
  /\ files = NoFiles
  /\ req = <<>>

SpecRepLong == InitRepLong /\ [][NextRep]_vars

\* the text of word k, lower-cased and without characters that are not
\* letters, digits or "_"
TokenAt(k) == SelectSeq(Lower(words[k].word), LAMBDA c : c \notin Punctuation)

\* the word indices an event of detect_repetitions covers
CoveredWords(e) == reps[e].idx .. (reps[e].idx + reps[e].count - 1)

\* C28: the events of detect_repetitions are in ascending start order and
\* cover pairwise disjoint ranges of word indices, and each covers a maximal
\* run: the words just before and just after it have another token.
C28_RunsOrderedDisjointMaximal ==
  pc = "rep_done" =>
    /\ \A e \in 1..Len(reps), f \in 1..Len(reps) :
          e < f => /\ reps[e].start <= reps[f].start
                   /\ CoveredWords(e) \cap CoveredWords(f) = {}
    /\ \A e \in 1..Len(reps) :
          LET a == reps[e].idx
              b == reps[e].idx + reps[e].count - 1
          IN  /\ 1 <= a /\ b <= Len(words)
              /\ reps[e].start = words[a].start
              /\ reps[e].end = words[b].end
              /\ \A k \in a..b : TokenAt(k) = reps[e].word
              /\ a = 1 \/ TokenAt(a - 1) # reps[e].word
              /\ b = Len(words) \/ TokenAt(b + 1) # reps[e].word

\* two runs of one transcript are reported
C28_Witness ==
  /\ pc = "rep_done"
  /\ Len(reps) >= 2

\* C29: detect_blocks reports a word instance at most once: a word flagged
\* by the gap check is not flagged again by the duration check, and no two
\* Block events have the same word text and start time.
C29_OneBlockPerWord ==
  pc = "done" =>
    \A b \in 1..Len(blocks), c \in 1..Len(blocks) :
       b # c => /\ blocks[b].idx # blocks[c].idx
                /\ ~(blocks[b].word = blocks[c].word /\ blocks[b].start = blocks[c].start)

\* a word flagged by the gap check that is also long enough for the duration
\* check, outside every repetition and prolongation
C29_Witness ==
  /\ pc = "done"
  /\ \E b \in 1..Len(blocks) :
        LET w == words[blocks[b].idx] IN
        /\ blocks[b].note # "abnormally_long_word"
        /\ w.end - w.start > 2000
        /\ 2 * (w.end - w.start) > 5 * SessionMedianDuration2
        /\ ~\E r \in 1..Len(reps) : reps[r].start <= w.start /\ w.start <= reps[r].end
        /\ ~\E p \in 1..Len(prolongs) : Abs(prolongs[p].start - w.start) < 100

(****** specification of the practice generation of /api/analyze **********)
\* dict.get(key, default) of a dictionary, a function on its keys
Get(dict, key, default) == IF key \in DOMAIN dict THEN dict[key] ELSE default

\* one character of str.upper()
UpperChar(c) ==
  CASE c = "a" -> "A" [] c = "c" -> "C" [] c = "i" -> "I" [] c = "s" -> "S"
    [] c = "t" -> "T" [] OTHER -> c

\* the index of the first event that is not a block, 0 for first_event = None
FirstNonBlock(evs) ==
  LET cand == {k \in 1..Len(evs) : evs[k].type # "block"} IN
  IF cand = {} THEN 0 ELSE CHOOSE k \in cand : \A j \in cand : k <= j

\* "Determine the word and sound" of analyze_speech
PracticeWord(first_event) ==
  IF first_event.type = "acoustic_repetition" /\ first_event.named
  THEN first_event.target_word
  ELSE Strip(first_event.word, StripChars)

PracticeSound(first_event) ==
  IF first_event.type = "acoustic_repetition" /\ first_event.named
  THEN first_event.inferred_sound
  ELSE IF PracticeWord(first_event) # <<>>
       THEN <<UpperChar(PracticeWord(first_event)[1])>> ELSE <<"?">>

\* the dictionary analyze_speech hands to generate_practice_exercises
PracticeInfo(first_event) ==
  [word |-> PracticeWord(first_event), sound |-> PracticeSound(first_event),
   stutter_type |-> first_event.type, event |-> first_event]

\* the technique section _create_practice_prompt puts into the prompt
TechniqueSection(stutter_type) ==
  IF stutter_type \in {"repetition", "acoustic_repetition"} THEN "CONTINUOUS PHONATION"
  ELSE IF stutter_type = "prolongation" THEN "SOFT CONTACT with QUICK RELEASE"
  ELSE IF stutter_type = "block" THEN "PRE-PHONATORY AIRFLOW"
  ELSE "STRUCTURE"

\* generate_practice_exercises: the prompt built from the keys it reads
PracticePrompt(stutter_info) ==
  [word |-> Get(stutter_info, "word", <<>>),
   sound |-> Get(stutter_info, "sound", <<>>),
   stutter_type |-> Get(stutter_info, "type", ""),
   technique |-> TechniqueSection(Get(stutter_info, "type", ""))]

\* the events of a detection result: one per second from 2.0 s on, of any
\* type, acoustic repetitions with or without an inferred sound
ResultEvent(kind, k) ==
  LET start == 1000 + 1000 * k IN
  CASE kind = "repetition" ->
         Event("repetition", Can, start, start + 800, 3, 95, 1)
    [] kind = "prolongation" ->
         Event("prolongation", So, start, start + 700, 0, 85, 1)
    [] kind = "block" ->
         [Event("block", So, start, start + 700, 0, 85, 1) EXCEPT !.gap_duration = 1700]
    [] kind = "acoustic_named" ->
         [Event("acoustic_repetition", <<"s", "-", "s">>, start, start + 384, 5, 80, 0)
            EXCEPT !.named = TRUE, !.inferred_sound = <<"s">>, !.target_word = So]
    [] OTHER ->
         Event("acoustic_repetition", <<"unknown sound">>, start, start + 384, 5, 80, 0)

ResultKinds == {"repetition", "prolongation", "block", "acoustic_named", "acoustic_unknown"}

NoPractice == [first_event |-> 0, prompt |-> <<>>]

InitPractice ==
  /\ \E n \in 0..MaxEvents :
       \E kind \in [1..n -> ResultKinds] :
          events = [k \in 1..n |-> ResultEvent(kind[k], k)]
  /\ words = <<>>
  /\ y = [onset_frames |-> <<>>, feat |-> <<>>, len_ms |-> 0]
  /\ pc = "detected"
  /\ reps = <<>>
  /\ prolongs = <<>>
  /\ acoustic_reps = <<>>
  /\ filtered_acoustic_reps = <<>>
  /\ blocks = <<>>
  /\ scan_i = 0
  /\ files = NoFiles
  /\ req = <<NoPractice>>

\* "if len(events) > 0" is false: the response goes out without practice
RespondWithoutStutters ==
  /\ pc = "detected"
  /\ events = <<>>
  /\ pc' = "responded"
  /\ UNCHANGED <<words, y, reps, prolongs, acoustic_reps, filtered_acoustic_reps,
                 blocks, events, scan_i, files, req>>

\* the loop that looks for the first event that is not a block
SelectFirstEvent ==
  /\ pc = "detected"
  /\ events # <<>>
  /\ req' = [req EXCEPT ![1].first_event = FirstNonBlock(events)]
  /\ pc' = "selected"
  /\ UNCHANGED <<words, y, reps, prolongs, acoustic_reps, filtered_acoustic_reps,
                 blocks, events, scan_i, files>>

\* "if not first_event: return jsonify(response_data)"
SkipPractice ==
  /\ pc = "selected"
  /\ req[1].first_event = 0
  /\ pc' = "responded"
  /\ UNCHANGED <<words, y, reps, prolongs, acoustic_reps, filtered_acoustic_reps,
                 blocks, events, scan_i, files, req>>

\* practice_info is built and generate_practice_exercises sends its prompt
GeneratePractice ==
  /\ pc = "selected"
  /\ req[1].first_event # 0
  /\ req' = [req EXCEPT
               ![1].prompt = PracticePrompt(PracticeInfo(events[req[1].first_event]))]
  /\ pc' = "responded"
  /\ UNCHANGED <<words, y, reps, prolongs, acoustic_reps, filtered_acoustic_reps,
                 blocks, events, scan_i, files>>

NextPractice ==
  \/ RespondWithoutStutters
  \/ SelectFirstEvent
  \/ SkipPractice
  \/ GeneratePractice

SpecPractice == InitPractice /\ [][NextPractice]_vars

\* C30: the practice script is generated for the earliest event that is not
\* a block, with the technique section of that event's type in the prompt
\* (repetition and acoustic_repetition: continuous phonation; prolongation:
\* soft contact with quick release); when every event is a block no practice
\* is generated.
C30_PracticeMatchesFirstNonBlockEvent ==
  pc = "responded" =>
    LET others == {k \in 1..Len(events) : events[k].type # "block"} IN
    IF others = {}
    THEN req[1].prompt = <<>>
    ELSE /\ req[1].first_event \in others
         /\ \A k \in others : events[req[1].first_event].start <= events[k].start
         /\ req[1].prompt # <<>>
         /\ events[req[1].first_event].type \in {"repetition", "acoustic_repetition"}
               => req[1].prompt.technique = "CONTINUOUS PHONATION"
         /\ events[req[1].first_event].type = "prolongation"
               => req[1].prompt.technique = "SOFT CONTACT with QUICK RELEASE"

====
